---- MODULE Spec2Model ----
(***************************************************************************)
(* Buffer manager (moderndbs::BufferManager / BufferFrame).                *)
(*                                                                         *)
(* Threads call fix_page, get_data, write into the buffer, and unfix_page. *)
(* fix_page is modelled in steps.  Statements that touch only what the     *)
(* pool mutex guards are grouped with the next operation on the mutex or   *)
(* on a frame latch, so that unfix_page and get_data (which take no mutex) *)
(* interleave with fix_page at every point where the program lets them     *)
(* make a difference.  readPage is split at its malloc and its read.       *)
(***************************************************************************)
EXTENDS Integers, Sequences, FiniteSets, TLC

\* ---------------------------------------------------------------- bounds
NumThreads == 2
page_count == 2
MaxVal     == 1
NumWritten == 1     \* pages 1..NumWritten are the ones callers write into
MaxCalls   == 5     \* fix_page calls made in one run
MaxCallsLive == 4   \* the same, in the runs checked for progress

Threads  == 1..NumThreads
Pages    == 1..(page_count + 1)
FrameIds == 1..(page_count + 1)            \* heap cells; a freed cell is reused
Vals     == 0..MaxVal                      \* contents of a page
WrittenPages == 1..NumWritten

NoThread == 0      \* mutex / latch not held
NoFrame  == 0      \* nullptr BufferFrame*, absent map entry
NullData == -1     \* data == nullptr
Uninit   == -2     \* malloc'ed buffer nobody has filled yet

VARIABLES
    mtx,                  \* BufferManager::mtx: holder or NoThread
    bufferFrameMap,       \* page id -> frame or NoFrame
    fifo,                 \* sequence of frames
    lru,                  \* sequence of frames
    frm,                  \* frame -> [page_id, state, data]; page_id = 0: cell is free
    writer,               \* frameLock: thread holding it for writing
    readers,              \* frameLock: threads holding it for reading
    disk,                 \* backing store: page id -> contents
    pc,                   \* position of each thread
    page_id,              \* fix_page argument
    exclusive,            \* fix_page argument
    frame,                \* fix_page local `frame` / get_data `this`
    it,                   \* fix_page: position of the fifo iterator
    replacementCandidate, \* fix_page local
    fixed,                \* what each thread got from fix_page and has not unfixed
    lastDirty,            \* written page -> bytes it had when last unfixed dirty, no
                          \* write since (NullData: none)
    pool,                 \* "live", "destroying", "destroyed", "terminated"
    calls                 \* fix_page calls made so far

vars == <<mtx, bufferFrameMap, fifo, lru, frm, writer, readers, disk, pc,
          page_id, exclusive, frame, it, replacementCandidate, fixed,
          lastDirty, pool, calls>>

poolVars   == <<bufferFrameMap, fifo, lru>>
latchVars  == <<writer, readers>>
localVars  == <<page_id, exclusive, frame, it, replacementCandidate>>

\* ---------------------------------------------------------------- helpers
Range(s) == {s[i] : i \in 1..Len(s)}

\* std::remove + erase: drop every occurrence of f, keep the order of the rest
Remove(s, f) == SelectSeq(s, LAMBDA x : x # f)

FreeFrame == [page_id |-> 0, state |-> "empty", data |-> NullData]

\* BufferFrame::BufferFrame
NewFrame(p) == [page_id |-> p, state |-> "empty", data |-> NullData]

Resident == {p \in Pages : bufferFrameMap[p] # NoFrame}

\* Variant: the comparison off by one
isFrameAvailableMut == Cardinality(Resident) <= page_count

\* BufferManager::isFrameAvailable
isFrameAvailable == Cardinality(Resident) < page_count

\* Variant: a write lock that does not wait for the readers
CanWriteMut(f) == writer[f] = NoThread

\* pthread_rwlock_trywrlock / wrlock can take the lock
CanWrite(f) == writer[f] = NoThread /\ readers[f] = {}
\* Variant: a read lock that does not wait for the writer
CanReadMut(f) == TRUE

\* pthread_rwlock_tryrdlock / rdlock can take the lock
CanRead(f) == writer[f] = NoThread

Held(f) == writer[f] # NoThread \/ readers[f] # {}

\* ---------------------------------------------------------------- Init
Init ==
    /\ mtx = NoThread
    /\ bufferFrameMap = [p \in Pages |-> NoFrame]
    /\ fifo = <<>>
    /\ lru = <<>>
    /\ frm = [f \in FrameIds |-> FreeFrame]
    /\ writer = [f \in FrameIds |-> NoThread]
    /\ readers = [f \in FrameIds |-> {}]
    /\ disk = [p \in Pages |-> 0]
    /\ pc = [t \in Threads |-> "idle"]
    /\ page_id = [t \in Threads |-> 0]
    /\ exclusive = [t \in Threads |-> FALSE]
    /\ frame = [t \in Threads |-> NoFrame]
    /\ it = [t \in Threads |-> 0]
    /\ replacementCandidate = [t \in Threads |-> NoFrame]
    /\ fixed = [t \in Threads |-> {}]
    /\ lastDirty = [p \in WrittenPages |-> NullData]
    /\ pool = "live"
    /\ calls = 0

\* ---------------------------------------------------------------- fix_page
\* Variant: the frame is put at the head of the lru
LruAfterHitMut(q, f) == <<f>> \o Remove(q, f)

\* lru.erase(remove(..)); lru.push_back(frame)
LruAfterHit(q, f) == Append(Remove(q, f), f)
\* Variant: the frame is left in the fifo
FifoAfterHitMut(q, f) == q

\* fifo.erase(remove(..))
FifoAfterHit(q, f) == Remove(q, f)

\* What the caller holds once fix_page(p, e) has returned frame f
Handle(f, p, e) == [frame |-> f, page |-> p, excl |-> e]

\* The locals of a call end with the call
EndCall(t) ==
    /\ pc' = [pc EXCEPT ![t] = "idle"]
    /\ page_id' = [page_id EXCEPT ![t] = 0]
    /\ exclusive' = [exclusive EXCEPT ![t] = FALSE]
    /\ frame' = [frame EXCEPT ![t] = NoFrame]
    /\ it' = [it EXCEPT ![t] = 0]
    /\ replacementCandidate' = [replacementCandidate EXCEPT ![t] = NoFrame]

\* fix_page(p, e) returns *f to thread t
ReturnFrame(t, f, p, e) ==
    /\ fixed' = [fixed EXCEPT ![t] = @ \cup {Handle(f, p, e)}]
    /\ EndCall(t)

\* Variant: lockWrite is called whatever the mode asked for
AcquireMut(t, f, excl) ==
    /\ writer' = [writer EXCEPT ![f] = t]
    /\ readers' = readers

\* BufferFrame::lockWrite / lockRead: the latch once thread t has taken it
Acquire(t, f, excl) ==
    /\ writer' = IF excl THEN [writer EXCEPT ![f] = t] ELSE writer
    /\ readers' = IF excl THEN readers ELSE [readers EXCEPT ![f] = @ \cup {t}]

\* A thread may enter fix_page(p, e).  A thread does not fix a page it still
\* holds (locking a pthread rwlock again in a conflicting mode is the caller's
\* error).  The call takes effect when mtx.lock() returns.
MayCall(t, p) ==
    /\ pool = "live"
    /\ pc[t] = "idle"
    /\ \A h \in fixed[t] : h.page # p
    /\ calls < MaxCalls
    /\ mtx = NoThread

\* Miss: new BufferFrame, bufferFrameMap.insert, fifo.push_back, the latch on
\* the fresh frame, mtx.unlock(), return.  cells, map, q, w and r are the
\* heap, the table, the fifo and the latches the statement finds.
CreateFrame(t, p, e, cells, map, q, w, r) ==
    LET f == CHOOSE c \in FrameIds :
                 cells[c].page_id = 0 /\ \A g \in FrameIds : cells[g].page_id = 0 => c <= g
    IN /\ frm' = [cells EXCEPT ![f] = NewFrame(p)]
       /\ bufferFrameMap' = [map EXCEPT ![p] = f]
       /\ fifo' = Append(q, f)
       /\ writer' = [w EXCEPT ![f] = IF e THEN t ELSE NoThread]
       /\ readers' = [r EXCEPT ![f] = IF e THEN {} ELSE {t}]
       /\ ReturnFrame(t, f, p, e)
       /\ mtx' = NoThread

\* fix_page, page resident: mtx.lock(), find, move the frame to the end of the
\* lru and out of the fifo
FixHit(t, p, e) ==
    /\ MayCall(t, p)
    /\ bufferFrameMap[p] # NoFrame
    /\ calls' = calls + 1
    /\ mtx' = t
    /\ page_id' = [page_id EXCEPT ![t] = p]
    /\ exclusive' = [exclusive EXCEPT ![t] = e]
    /\ frame' = [frame EXCEPT ![t] = bufferFrameMap[p]]
    /\ lru' = LruAfterHit(lru, bufferFrameMap[p])
    /\ fifo' = FifoAfterHit(fifo, bufferFrameMap[p])
    /\ pc' = [pc EXCEPT ![t] = "hit_try"]
    /\ UNCHANGED <<bufferFrameMap, frm, latchVars, disk, it, replacementCandidate, fixed, lastDirty, pool>>

\* fix_page, page not resident, isFrameAvailable(): mtx.lock(), find, create
FixMissFree(t, p, e) ==
    /\ MayCall(t, p)
    /\ bufferFrameMap[p] = NoFrame
    /\ isFrameAvailable
    /\ calls' = calls + 1
    /\ CreateFrame(t, p, e, frm, bufferFrameMap, fifo, writer, readers)
    /\ UNCHANGED <<lru, disk, lastDirty, pool>>

\* fix_page, page not resident, no free slot: mtx.lock(), find, and on to the
\* search for a replacement candidate from fifo.begin()
FixMissFull(t, p, e) ==
    /\ MayCall(t, p)
    /\ bufferFrameMap[p] = NoFrame
    /\ ~isFrameAvailable
    /\ calls' = calls + 1
    /\ mtx' = t
    /\ page_id' = [page_id EXCEPT ![t] = p]
    /\ exclusive' = [exclusive EXCEPT ![t] = e]
    /\ it' = [it EXCEPT ![t] = 1]
    /\ pc' = [pc EXCEPT ![t] = "scan"]
    /\ UNCHANGED <<poolVars, frm, latchVars, disk, frame, replacementCandidate, fixed, lastDirty, pool>>

\* Variant: the mutex is given up only once the latch has been taken
HitTryLockMut(t) ==
    /\ pc[t] = "hit_try"
    /\ LET f == frame[t]
           locked == IF exclusive[t] THEN CanWrite(f) ELSE CanRead(f)
       IN IF locked
            THEN /\ Acquire(t, f, exclusive[t])
                 /\ ReturnFrame(t, f, page_id[t], exclusive[t])
                 /\ mtx' = NoThread
            ELSE /\ pc' = [pc EXCEPT ![t] = "hit_block"]
                 /\ UNCHANGED <<mtx, latchVars, fixed, localVars>>
    /\ UNCHANGED <<poolVars, frm, disk, lastDirty, pool, calls>>

\* Hit: frame->lockWrite(false) / lockRead(false), then mtx.unlock(); when the
\* latch was taken fix_page returns, otherwise it goes on to block.
HitTryLock(t) ==
    /\ pc[t] = "hit_try"
    /\ mtx' = NoThread
    /\ LET f == frame[t]
           locked == IF exclusive[t] THEN CanWrite(f) ELSE CanRead(f)
       IN IF locked
            THEN /\ Acquire(t, f, exclusive[t])
                 /\ ReturnFrame(t, f, page_id[t], exclusive[t])
            ELSE /\ pc' = [pc EXCEPT ![t] = "hit_block"]
                 /\ UNCHANGED <<latchVars, fixed, localVars>>
    /\ UNCHANGED <<poolVars, frm, disk, lastDirty, pool, calls>>

\* Hit: frame->lockWrite(true) / lockRead(true) outside the mutex; returns
\* once the latch is granted.
HitBlockLock(t) ==
    /\ pc[t] = "hit_block"
    /\ IF exclusive[t] THEN CanWrite(frame[t]) ELSE CanRead(frame[t])
    /\ Acquire(t, frame[t], exclusive[t])
    /\ ReturnFrame(t, frame[t], page_id[t], exclusive[t])
    /\ UNCHANGED <<mtx, poolVars, frm, disk, lastDirty, pool, calls>>

\* Variant: the loop goes on from the fifo into the lru
ScanMut(t) ==
    /\ pc[t] = "scan"
    /\ LET q == fifo \o lru
       IN IF it[t] > Len(q)
            THEN /\ pc' = [pc EXCEPT ![t] = "throw"]
                 /\ UNCHANGED <<writer, it, replacementCandidate>>
            ELSE IF CanWrite(q[it[t]])
            THEN /\ writer' = [writer EXCEPT ![q[it[t]]] = t]
                 /\ replacementCandidate' = [replacementCandidate EXCEPT ![t] = q[it[t]]]
                 /\ pc' = [pc EXCEPT ![t] = "evict_flush"]
                 /\ it' = it
            ELSE /\ it' = [it EXCEPT ![t] = @ + 1]
                 /\ UNCHANGED <<writer, replacementCandidate, pc>>
    /\ UNCHANGED <<mtx, poolVars, frm, readers, disk, page_id, exclusive, frame, fixed, lastDirty, pool, calls>>

\* Miss, no free slot: one turn of the loop over fifo: (*it)->lockWrite(false)
Scan(t) ==
    /\ pc[t] = "scan"
    /\ IF it[t] > Len(fifo)
         THEN /\ pc' = [pc EXCEPT ![t] = "throw"]
              /\ UNCHANGED <<writer, it, replacementCandidate>>
         ELSE IF CanWrite(fifo[it[t]])
         THEN /\ writer' = [writer EXCEPT ![fifo[it[t]]] = t]
              /\ replacementCandidate' = [replacementCandidate EXCEPT ![t] = fifo[it[t]]]
              /\ pc' = [pc EXCEPT ![t] = "evict_flush"]
              /\ it' = it
         ELSE /\ it' = [it EXCEPT ![t] = @ + 1]
              /\ UNCHANGED <<writer, replacementCandidate, pc>>
    /\ UNCHANGED <<mtx, poolVars, frm, readers, disk, page_id, exclusive, frame, fixed, lastDirty, pool, calls>>

\* Variant: the throw without mtx.unlock()
ThrowBufferFullMut(t) ==
    /\ pc[t] = "throw"
    /\ EndCall(t)
    /\ UNCHANGED <<mtx, poolVars, frm, latchVars, disk, fixed, lastDirty, pool, calls>>

\* replacementCandidate == nullptr: mtx.unlock(); throw buffer_full_error{}
ThrowBufferFull(t) ==
    /\ pc[t] = "throw"
    /\ mtx' = NoThread
    /\ EndCall(t)
    /\ UNCHANGED <<poolVars, frm, latchVars, disk, fixed, lastDirty, pool, calls>>

\* BufferFrame::writePage with a buffer: the page goes to the store, state clean
WrittenFrame(fr) == [fr EXCEPT !.state = "clean"]
WrittenDisk(fr) == [disk EXCEPT ![fr.page_id] = fr.data]

\* BufferFrame::flush decides whether to write
NeedsWrite(fr) == fr.state = "dirty"

\* Eviction: replacementCandidate->flush() with a buffer to write (or nothing to do)
EvictFlush(t) ==
    /\ pc[t] = "evict_flush"
    /\ LET c == replacementCandidate[t]
       IN /\ ~(NeedsWrite(frm[c]) /\ frm[c].data = NullData)
          /\ IF NeedsWrite(frm[c])
               THEN /\ disk' = WrittenDisk(frm[c])
                    /\ frm' = [frm EXCEPT ![c] = WrittenFrame(frm[c])]
               ELSE UNCHANGED <<disk, frm>>
    /\ pc' = [pc EXCEPT ![t] = "evict_delete"]
    /\ UNCHANGED <<mtx, poolVars, latchVars, localVars, fixed, lastDirty, pool, calls>>

\* Eviction: flush() of a dirty frame whose data is nullptr.  write_block is
\* handed a null buffer: the store either rejects the write, and the exception
\* leaves fix_page (mutex and victim latch still held), or writes nothing.
EvictFlushNull(t) ==
    /\ pc[t] = "evict_flush"
    /\ LET c == replacementCandidate[t]
       IN /\ NeedsWrite(frm[c]) /\ frm[c].data = NullData
          /\ \/ /\ EndCall(t)
                /\ frm' = frm
             \/ /\ frm' = [frm EXCEPT ![c] = WrittenFrame(frm[c])]
                /\ pc' = [pc EXCEPT ![t] = "evict_delete"]
                /\ UNCHANGED localVars
    /\ UNCHANGED <<mtx, poolVars, latchVars, disk, fixed, lastDirty, pool, calls>>

\* Variant: state = clean is set before write_block is called
EvictFlushFailMut(t) ==
    /\ pc[t] = "evict_flush"
    /\ LET c == replacementCandidate[t]
       IN /\ NeedsWrite(frm[c]) /\ frm[c].data # NullData
          /\ frm' = [frm EXCEPT ![c] = WrittenFrame(frm[c])]
    /\ EndCall(t)
    /\ UNCHANGED <<mtx, poolVars, latchVars, disk, fixed, lastDirty, pool, calls>>

\* Eviction: flush() of a dirty frame whose write_block fails.  writePage has
\* no handler and neither has fix_page: the exception leaves fix_page before
\* state = clean, before the erase and before any mtx.unlock(); the victim
\* keeps the latch the search took.
EvictFlushFail(t) ==
    /\ pc[t] = "evict_flush"
    /\ LET c == replacementCandidate[t]
       IN NeedsWrite(frm[c]) /\ frm[c].data # NullData
    /\ EndCall(t)
    /\ UNCHANGED <<mtx, poolVars, frm, latchVars, disk, fixed, lastDirty, pool, calls>>

\* Variant: the erase takes the head of the fifo, not the candidate
EvictDeleteCreateMut(t) ==
    /\ pc[t] = "evict_delete"
    /\ LET c == replacementCandidate[t]
       IN CreateFrame(t, page_id[t], exclusive[t],
                      [frm EXCEPT ![c] = FreeFrame],
                      [bufferFrameMap EXCEPT ![frm[c].page_id] = NoFrame],
                      Tail(fifo),
                      [writer EXCEPT ![c] = NoThread],
                      [readers EXCEPT ![c] = {}])
    /\ UNCHANGED <<lru, disk, lastDirty, pool, calls>>

\* Eviction: bufferFrameMap.erase, fifo.erase(remove(..)), delete (the
\* destructor flushes again, which finds the frame clean, and frees the
\* buffer); then the new frame is created in the freed slot.
EvictDeleteCreate(t) ==
    /\ pc[t] = "evict_delete"
    /\ LET c == replacementCandidate[t]
       IN CreateFrame(t, page_id[t], exclusive[t],
                      [frm EXCEPT ![c] = FreeFrame],
                      [bufferFrameMap EXCEPT ![frm[c].page_id] = NoFrame],
                      Remove(fifo, c),
                      [writer EXCEPT ![c] = NoThread],
                      [readers EXCEPT ![c] = {}])
    /\ UNCHANGED <<lru, disk, lastDirty, pool, calls>>

\* ---------------------------------------------------------------- get_data
\* get_data on a frame the thread has fixed: state == empty sends it into
\* readPage; otherwise it returns data at once (no change of state).
GetDataCall(t, h) ==
    /\ pool = "live"
    /\ pc[t] = "idle"
    /\ h \in fixed[t]
    /\ frm[h.frame].state = "empty"
    /\ pc' = [pc EXCEPT ![t] = "gd_malloc"]
    /\ frame' = [frame EXCEPT ![t] = h.frame]
    /\ UNCHANGED <<mtx, poolVars, frm, latchVars, disk, page_id, exclusive, it, replacementCandidate, fixed, lastDirty, pool, calls>>

\* readPage: data = malloc(page_size)
ReadPageMalloc(t) ==
    /\ pc[t] = "gd_malloc"
    /\ frm' = [frm EXCEPT ![frame[t]].data = Uninit]
    /\ pc' = [pc EXCEPT ![t] = "gd_read"]
    /\ UNCHANGED <<mtx, poolVars, latchVars, disk, localVars, fixed, lastDirty, pool, calls>>

\* readPage: read_block into the buffer data points to; state = clean
ReadPageRead(t) ==
    /\ pc[t] = "gd_read"
    /\ frm' = [frm EXCEPT ![frame[t]].data = disk[frm[frame[t]].page_id],
                          ![frame[t]].state = "clean"]
    /\ pc' = [pc EXCEPT ![t] = "gd_ret"]
    /\ UNCHANGED <<mtx, poolVars, latchVars, disk, localVars, fixed, lastDirty, pool, calls>>

\* get_data: return data
GetDataReturn(t) ==
    /\ pc[t] = "gd_ret"
    /\ EndCall(t)
    /\ UNCHANGED <<mtx, poolVars, frm, latchVars, disk, fixed, lastDirty, pool, calls>>

\* ---------------------------------------------------------------- the caller
\* The holder of the exclusive latch stores v through the pointer get_data gave
Write(t, h, v) ==
    /\ pool = "live"
    /\ pc[t] = "idle"
    /\ h \in fixed[t]
    /\ h.excl
    /\ h.page \in WrittenPages
    /\ frm[h.frame].data # NullData
    /\ frm[h.frame].data # v
    /\ frm' = [frm EXCEPT ![h.frame].data = v]
    /\ lastDirty' = [lastDirty EXCEPT ![h.page] = NullData]
    /\ UNCHANGED <<mtx, poolVars, latchVars, disk, pc, localVars, fixed, pool, calls>>

\* BufferFrame::setDirty
setDirty(fr) == [fr EXCEPT !.state = "dirty"]

\* Variant: unfix_page without page.unlock()
UnfixMut(t, h, is_dirty) ==
    /\ pool = "live"
    /\ pc[t] = "idle"
    /\ h \in fixed[t]
    /\ is_dirty => h.excl
    /\ frm' = IF is_dirty THEN [frm EXCEPT ![h.frame] = setDirty(frm[h.frame])] ELSE frm
    /\ fixed' = [fixed EXCEPT ![t] = @ \ {h}]
    /\ lastDirty' = IF is_dirty /\ h.page \in WrittenPages
                      THEN [lastDirty EXCEPT ![h.page] = frm[h.frame].data]
                      ELSE lastDirty
    /\ UNCHANGED <<mtx, poolVars, latchVars, disk, pc, localVars, pool, calls>>

\* BufferManager::unfix_page: setDirty when is_dirty, then unlock.  is_dirty
\* is passed only by the holder of the exclusive latch.
Unfix(t, h, is_dirty) ==
    /\ pool = "live"
    /\ pc[t] = "idle"
    /\ h \in fixed[t]
    /\ is_dirty => h.excl
    /\ frm' = IF is_dirty THEN [frm EXCEPT ![h.frame] = setDirty(frm[h.frame])] ELSE frm
    /\ writer' = IF writer[h.frame] = t THEN [writer EXCEPT ![h.frame] = NoThread] ELSE writer
    /\ readers' = IF writer[h.frame] = t THEN readers ELSE [readers EXCEPT ![h.frame] = @ \ {t}]
    /\ fixed' = [fixed EXCEPT ![t] = @ \ {h}]
    /\ lastDirty' = IF is_dirty /\ h.page \in WrittenPages
                      THEN [lastDirty EXCEPT ![h.page] = frm[h.frame].data]
                      ELSE lastDirty
    /\ UNCHANGED <<mtx, poolVars, disk, pc, localVars, pool, calls>>

\* ---------------------------------------------------------------- ~BufferManager
Quiescent == \A t \in Threads : pc[t] = "idle" /\ fixed[t] = {}

\* The frames the destructor's loop has still to delete
ToDelete == {f \in FrameIds : frm[f].page_id # 0}

\* The owner destroys the pool once no thread uses it
DestroyStart ==
    /\ pool = "live"
    /\ Quiescent
    /\ pool' = "destroying"
    /\ UNCHANGED <<mtx, poolVars, frm, latchVars, disk, pc, localVars, fixed, lastDirty, calls>>

\* One turn of the loop over bufferFrameMap (an unordered_map: any order):
\* delete kv.second, whose destructor flushes and frees the buffer
DestroyFrame(f) ==
    /\ pool = "destroying"
    /\ f \in ToDelete
    /\ ~(NeedsWrite(frm[f]) /\ frm[f].data = NullData)
    /\ disk' = IF NeedsWrite(frm[f]) THEN WrittenDisk(frm[f]) ELSE disk
    /\ frm' = [frm EXCEPT ![f] = FreeFrame]
    /\ writer' = [writer EXCEPT ![f] = NoThread]
    /\ readers' = [readers EXCEPT ![f] = {}]
    /\ UNCHANGED <<mtx, poolVars, pc, localVars, fixed, lastDirty, pool, calls>>

\* The same turn for a dirty frame whose data is nullptr: the store rejects the
\* null buffer and the exception leaving a destructor ends the process, or the
\* store writes nothing and the loop goes on.
DestroyFrameNull(f) ==
    /\ pool = "destroying"
    /\ f \in ToDelete
    /\ NeedsWrite(frm[f]) /\ frm[f].data = NullData
    /\ \/ /\ pool' = "terminated"
          /\ UNCHANGED <<frm, latchVars>>
       \/ /\ frm' = [frm EXCEPT ![f] = FreeFrame]
          /\ writer' = [writer EXCEPT ![f] = NoThread]
          /\ readers' = [readers EXCEPT ![f] = {}]
          /\ pool' = pool
    /\ UNCHANGED <<mtx, poolVars, disk, pc, localVars, fixed, lastDirty, calls>>

\* The loop is over
DestroyDone ==
    /\ pool = "destroying"
    /\ ToDelete = {}
    /\ pool' = "destroyed"
    /\ UNCHANGED <<mtx, poolVars, frm, latchVars, disk, pc, localVars, fixed, lastDirty, calls>>

\* ---------------------------------------------------------------- Next
Next ==
    \/ \E t \in Threads, p \in Pages, e \in BOOLEAN : FixHit(t, p, e)
    \/ \E t \in Threads, p \in Pages, e \in BOOLEAN : FixMissFree(t, p, e)
    \/ \E t \in Threads, p \in Pages, e \in BOOLEAN : FixMissFull(t, p, e)
    \/ \E t \in Threads : HitTryLock(t)
    \/ \E t \in Threads : HitBlockLock(t)
    \/ \E t \in Threads : Scan(t)
    \/ \E t \in Threads : ThrowBufferFull(t)
    \/ \E t \in Threads : EvictFlush(t)
    \/ \E t \in Threads : EvictFlushNull(t)
    \/ \E t \in Threads : EvictFlushFail(t)
    \/ \E t \in Threads : EvictDeleteCreate(t)
    \/ \E t \in Threads : \E h \in fixed[t] : GetDataCall(t, h)
    \/ \E t \in Threads : ReadPageMalloc(t)
    \/ \E t \in Threads : ReadPageRead(t)
    \/ \E t \in Threads : GetDataReturn(t)
    \/ \E t \in Threads : \E h \in fixed[t] : \E v \in Vals : Write(t, h, v)
    \/ \E t \in Threads : \E h \in fixed[t] : \E d \in BOOLEAN : Unfix(t, h, d)
    \/ DestroyStart
    \/ \E f \in FrameIds : DestroyFrame(f)
    \/ \E f \in FrameIds : DestroyFrameNull(f)
    \/ DestroyDone

Spec == Init /\ [][Next]_vars

\* One thread alone uses the pool: the calls follow one another, no call
\* overlaps another.  (Alone, a thread never waits for a latch.)
NextSeq ==
    \/ \E p \in Pages, e \in BOOLEAN : FixHit(1, p, e)
    \/ \E p \in Pages, e \in BOOLEAN : FixMissFree(1, p, e)
    \/ \E p \in Pages, e \in BOOLEAN : FixMissFull(1, p, e)
    \/ HitTryLock(1)
    \/ Scan(1)
    \/ ThrowBufferFull(1)
    \/ EvictFlush(1)
    \/ EvictFlushNull(1)
    \/ EvictFlushFail(1)
    \/ EvictDeleteCreate(1)
    \/ \E h \in fixed[1] : GetDataCall(1, h)
    \/ ReadPageMalloc(1)
    \/ ReadPageRead(1)
    \/ GetDataReturn(1)
    \/ \E h \in fixed[1] : \E v \in Vals : Write(1, h, v)
    \/ \E h \in fixed[1] : \E d \in BOOLEAN : Unfix(1, h, d)
    \/ DestroyStart
    \/ \E f \in FrameIds : DestroyFrame(f)
    \/ \E f \in FrameIds : DestroyFrameNull(f)
    \/ DestroyDone

SpecSeq == Init /\ [][NextSeq]_vars

\* Eviction: flush() of a dirty frame whose data is nullptr, the store
\* raising no error
EvictFlushNullQuiet(t) == EvictFlushNull(t) /\ pc'[t] = "evict_delete"

\* The threads use a pool that outlives them, and no call of the store fails.
\* At most MaxCallsLive calls of fix_page are made.
NextLive ==
    \/ \E t \in Threads, p \in Pages, e \in BOOLEAN : calls < MaxCallsLive /\ FixHit(t, p, e)
    \/ \E t \in Threads, p \in Pages, e \in BOOLEAN : calls < MaxCallsLive /\ FixMissFree(t, p, e)
    \/ \E t \in Threads, p \in Pages, e \in BOOLEAN : calls < MaxCallsLive /\ FixMissFull(t, p, e)
    \/ \E t \in Threads : HitTryLock(t)
    \/ \E t \in Threads : HitBlockLock(t)
    \/ \E t \in Threads : Scan(t)
    \/ \E t \in Threads : ThrowBufferFull(t)
    \/ \E t \in Threads : EvictFlush(t)
    \/ \E t \in Threads : EvictFlushNullQuiet(t)
    \/ \E t \in Threads : EvictDeleteCreate(t)
    \/ \E t \in Threads : \E h \in fixed[t] : GetDataCall(t, h)
    \/ \E t \in Threads : ReadPageMalloc(t)
    \/ \E t \in Threads : ReadPageRead(t)
    \/ \E t \in Threads : GetDataReturn(t)
    \/ \E t \in Threads : \E h \in fixed[t] : \E v \in Vals : Write(t, h, v)
    \/ \E t \in Threads : \E h \in fixed[t] : \E d \in BOOLEAN : Unfix(t, h, d)

\* A thread inside fix_page or get_data goes on running: each of its steps
\* that stays possible is taken.  (When a caller unfixes is up to the caller.)
Fairness ==
    \A t \in Threads :
       /\ WF_vars(HitTryLock(t))
       /\ WF_vars(HitBlockLock(t))
       /\ WF_vars(Scan(t))
       /\ WF_vars(ThrowBufferFull(t))
       /\ WF_vars(EvictFlush(t))
       /\ WF_vars(EvictFlushNullQuiet(t))
       /\ WF_vars(EvictDeleteCreate(t))
       /\ WF_vars(ReadPageMalloc(t))
       /\ WF_vars(ReadPageRead(t))
       /\ WF_vars(GetDataReturn(t))

SpecLive == Init /\ [][NextLive]_vars /\ Fairness

\* ======================================================================
\* Properties
\* ======================================================================
Queues == fifo \o lru
Count(q, f) == Len(SelectSeq(q, LAMBDA x : x = f))
Others(q, f) == SelectSeq(q, LAMBDA x : x # f)
TableFrames == {bufferFrameMap[p] : p \in Resident}

\* C1: in every reachable state the frame table holds at most page_count
\* frames (and no more than page_count frames exist).
C1_FrameCountBounded ==
    /\ Cardinality(Resident) <= page_count
    /\ Cardinality(ToDelete) <= page_count

\* C1 witness: the table is full and a miss is about to replace a frame.
C1_Witness ==
    \E t \in Threads : pc[t] = "evict_delete" /\ Cardinality(Resident) = page_count

\* C2: a page fixed exclusively by one thread is fixed by no other thread in
\* any mode; only shared fixes of a page coexist.  The same holds of the
\* latch itself: a writer excludes every other holder.
C2_ExclusiveExcludes ==
    /\ \A t1 \in Threads, t2 \in Threads :
         \A h1 \in fixed[t1], h2 \in fixed[t2] :
            (t1 # t2 /\ (h1.page = h2.page \/ h1.frame = h2.frame))
               => (~h1.excl /\ ~h2.excl)
    /\ \A f \in FrameIds : writer[f] # NoThread => readers[f] = {}

\* C2 witness: two threads hold one page shared while one of them waits for
\* a page the other holds exclusively.
C2_Witness ==
    \E t1 \in Threads, t2 \in Threads :
       /\ t1 # t2
       /\ \E h1 \in fixed[t1], h2 \in fixed[t2] : h1.page = h2.page /\ ~h1.excl /\ ~h2.excl
       /\ \E h \in fixed[t1] : h.excl /\ pc[t2] = "hit_block" /\ page_id[t2] = h.page

\* C3: what fix_page(p, e) returned is the frame the table maps p to, it
\* carries page id p, and the caller holds its latch in the mode asked for,
\* for as long as the caller has not unfixed it.
C3_ReturnedFrameLatched ==
    \A t \in Threads : \A h \in fixed[t] :
       /\ bufferFrameMap[h.page] = h.frame
       /\ frm[h.frame].page_id = h.page
       /\ IF h.excl THEN writer[h.frame] = t /\ readers[h.frame] = {}
                    ELSE t \in readers[h.frame] /\ writer[h.frame] = NoThread

\* C3 witness: a frame returned by the hit path (it is in the lru) held
\* shared, and a frame returned by the miss path after an eviction held
\* exclusively.
C3_Witness ==
    \E t \in Threads, u \in Threads :
       /\ \E h \in fixed[t] : ~h.excl /\ h.frame \in Range(lru)
       /\ \E h \in fixed[u] : h.excl /\ h.frame \in Range(fifo)
       /\ \E p \in Pages : p \notin Resident /\ disk[p] # 0

\* C4: fix_page throws buffer_full_error only when every resident frame, in
\* the fifo or in the lru, is latched.
C4_BufferFullOnlyIfAllLatched ==
    \A t \in Threads :
       pc[t] = "throw" => \A f \in TableFrames : Held(f)

\* C5: the steps of a fix_page call that ends in buffer_full_error change
\* neither the table, the queues, the frames, the latches nor the store, and
\* the throw releases the mutex.
C5_BufferFullChangesNothing ==
    [][\A t \in Threads :
          /\ ( \/ pc[t] = "idle" /\ pc'[t] = "scan"
               \/ pc[t] = "scan" /\ pc'[t] = "scan" /\ it'[t] # it[t]
               \/ pc[t] = "scan" /\ pc'[t] = "throw" )
                => UNCHANGED <<bufferFrameMap, fifo, lru, frm, writer, readers, disk>>
          /\ pc[t] = "throw" /\ pc'[t] = "idle"
                => /\ UNCHANGED <<bufferFrameMap, fifo, lru, frm, writer, readers, disk>>
                   /\ mtx' = NoThread
                   /\ \A f \in FrameIds : writer'[f] # t \/ \E h \in fixed'[t] : h.frame = f]_vars

\* C5 witness: a call about to throw after finding a latched frame in the fifo.
C5_Witness ==
    \E t \in Threads : pc[t] = "throw" /\ it[t] > 1

\* C6: a holder of page p that calls get_data gets the bytes p had when it
\* was last unfixed dirty, as long as nobody has written p since.
C6_DirtyBytesObservable ==
    \A t \in Threads : \A h \in fixed[t] :
       ( /\ pc[t] = "idle" \/ (pc[t] = "gd_ret" /\ frame[t] = h.frame)
         /\ h.page \in WrittenPages
         /\ lastDirty[h.page] # NullData
         /\ frm[h.frame].state # "empty" )
       => frm[h.frame].data = lastDirty[h.page]

\* C7: once the pool is gone the store holds, for every page, the bytes it
\* had when it was last unfixed dirty; and a frame about to be deleted by an
\* eviction has had them written.
C7_DirtyWrittenBeforeDestroy ==
    /\ pool \in {"destroyed", "terminated"} =>
          \A p \in WrittenPages : lastDirty[p] # NullData => disk[p] = lastDirty[p]
    /\ \A t \in Threads : pc[t] = "evict_delete" =>
          LET p == frm[replacementCandidate[t]].page_id
          IN (p \in WrittenPages /\ lastDirty[p] # NullData) => disk[p] = lastDirty[p]

\* C8: whenever nobody holds the pool mutex, every frame of the table is
\* exactly once in fifo \o lru and the queues hold no other frame.
C8_ExactlyOneQueue ==
    mtx = NoThread =>
       /\ \A f \in TableFrames : Count(Queues, f) = 1
       /\ Range(Queues) \subseteq TableFrames

\* C8 witness: mutex free, table full, a frame in each queue.
C8_Witness ==
    mtx = NoThread /\ fifo # <<>> /\ lru # <<>> /\ Cardinality(Resident) = page_count

\* C9: the frame an eviction is about to delete is latched exclusively by
\* the evicting thread and by nobody else, and no other thread has it fixed.
C9_VictimUnlatched ==
    \A t \in Threads :
       pc[t] \in {"evict_flush", "evict_delete"} =>
          LET c == replacementCandidate[t]
          IN /\ writer[c] = t
             /\ readers[c] = {}
             /\ \A u \in Threads : \A h \in fixed[u] : h.frame # c

\* C9 witness: an eviction that skipped a latched frame and took the next.
C9_Witness ==
    \E t \in Threads :
       /\ pc[t] = "evict_delete"
       /\ it[t] > 1
       /\ \E u \in Threads : u # t /\ \E h \in fixed[u] : ~h.excl

\* C10: a fix_page that finds the page resident leaves its frame at the tail
\* of the lru, once, and out of the fifo; the other frames keep their queue
\* and their order.
C10_HitMovesToLruTail ==
    [][\A t \in Threads :
          (pc[t] = "idle" /\ pc'[t] = "hit_try")
             => LET f == frame'[t]
                IN /\ Len(lru') >= 1
                   /\ lru'[Len(lru')] = f
                   /\ Count(lru', f) = 1
                   /\ Count(fifo', f) = 0
                   /\ Others(lru', f) = Others(lru, f)
                   /\ Others(fifo', f) = Others(fifo, f)]_vars

\* C10 witness: a hit has just moved a frame behind another frame of the lru.
C10_Witness ==
    \E t \in Threads : pc[t] = "hit_try" /\ Len(lru) >= 2 /\ lru[Len(lru)] = frame[t]

\* Whether some thread has frame f fixed (got it from fix_page, not yet unfixed)
Fixed(f) == \E u \in Threads : \E h \in fixed[u] : h.frame = f

\* The first frame of q whose exclusive latch a trywrlock would get
Selectable(q) == {i \in 1..Len(q) : CanWrite(q[i])}
FirstSelectable(q) ==
    q[CHOOSE i \in Selectable(q) : \A j \in Selectable(q) : i <= j]

\* C11: on a miss with the table full the victim is the first frame, going
\* through the fifo and then the lru from the head, whose exclusive latch
\* can be taken without waiting; the call fails only when there is none;
\* and the new frame goes to the tail of the fifo.
C11_VictimFifoThenLru ==
    [][\A t \in Threads :
          /\ (pc[t] = "scan" /\ pc'[t] = "throw")
                => Selectable(fifo \o lru) = {}
          /\ (pc[t] = "scan" /\ pc'[t] = "evict_flush")
                => /\ Selectable(fifo \o lru) # {}
                   /\ replacementCandidate'[t] = FirstSelectable(fifo \o lru)
          /\ (pc[t] = "evict_delete" /\ pc'[t] = "idle")
                => /\ fifo' # <<>>
                   /\ fifo'[Len(fifo')] = bufferFrameMap'[page_id[t]]]_vars

\* C12 as stated: while some thread has a frame fixed, no step changes the
\* queue the frame is in.
C12_LatchedFrameNeverMoved ==
    [][\A f \in FrameIds :
          Fixed(f) => /\ (f \in Range(fifo)) = (f \in Range(fifo'))
                      /\ (f \in Range(lru)) = (f \in Range(lru'))]_vars

\* C12 amended: while some thread has a frame fixed, the only step that
\* changes the queue the frame is in is a fix_page that finds the frame's
\* own page resident, and that step puts the frame at the tail of the lru;
\* the search for a victim and the eviction leave it where it is.
C12_LatchedFrameMovedOnlyByHit ==
    [][\A f \in FrameIds :
          Fixed(f) =>
             IF \E t \in Threads : pc[t] = "idle" /\ pc'[t] = "hit_try" /\ frame'[t] = f
               THEN f \notin Range(fifo') /\ lru'[Len(lru')] = f
               ELSE /\ (f \in Range(fifo)) = (f \in Range(fifo'))
                    /\ (f \in Range(lru)) = (f \in Range(lru'))]_vars

\* C12 witness: an eviction is under way whose search passed over a fixed
\* frame at the head of the fifo and took the frame behind it.
C12_Witness ==
    \E t \in Threads :
       /\ pc[t] = "evict_flush"
       /\ it[t] > 1
       /\ Fixed(fifo[1])
       /\ replacementCandidate[t] = fifo[it[t]]

\* C13: the frame a hit is about to latch, or is waiting to latch, is still
\* the frame of the page asked for: it is in the table under that page and
\* has not been deleted.
C13_WaitedFrameStays ==
    \A t \in Threads :
       pc[t] \in {"hit_try", "hit_block"} =>
          /\ bufferFrameMap[page_id[t]] = frame[t]
          /\ frm[frame[t]].page_id = page_id[t]
          /\ Count(Queues, frame[t]) = 1

\* C13 witness: a thread waits for a latch nobody holds any more while
\* another thread's miss is at the point of deleting its victim.
C13_Witness ==
    \E t \in Threads, u \in Threads :
       /\ pc[t] = "hit_block"
       /\ ~Held(frame[t])
       /\ pc[u] = "evict_delete"

\* C14: a thread that is writing a victim's buffer back, or reading a page
\* in, does not hold the pool mutex.
C14_NoIoUnderMutex ==
    \A t \in Threads :
       ( \/ /\ pc[t] = "evict_flush"
            /\ NeedsWrite(frm[replacementCandidate[t]])
            /\ frm[replacementCandidate[t]].data # NullData
         \/ pc[t] = "gd_read" )
       => mtx # t

\* Whether thread t, asking for frame f in mode e, has to wait
MustWait(f, e) == IF e THEN ~CanWrite(f) ELSE ~CanRead(f)

\* C15: a thread that waits for a frame latch does not hold the pool mutex
\* (under the mutex there are only attempts that do not wait), and the latch
\* of a frame about to be created is free, so that latching it does not wait.
C15_NoBlockingUnderMutex ==
    /\ \A t \in Threads : pc[t] = "hit_block" => mtx # t
    /\ \A t \in Threads :
          (mtx = t /\ pc[t] # "idle") =>
             \A f \in FrameIds : frm[f].page_id = 0 => ~Held(f)

\* C15 witness: a thread has to wait for the latch of page p while another
\* thread is inside fix_page, mutex held, for a different page.
C15_Witness ==
    \E t \in Threads, u \in Threads :
       /\ pc[t] = "hit_block"
       /\ MustWait(frame[t], exclusive[t])
       /\ mtx = u
       /\ page_id[u] # page_id[t]

\* C16: when the write-back of a dirty victim fails, fix_page ends without
\* returning a frame; the victim is still in the table and once in the
\* queues, unchanged and dirty; the store is unchanged and the page asked for
\* is not resident.
C16_WriteFailureKeepsVictim ==
    [][\A t \in Threads :
          (pc[t] = "evict_flush" /\ pc'[t] = "idle") =>
             LET c == replacementCandidate[t]
             IN /\ fixed'[t] = fixed[t]
                /\ frm'[c] = frm[c]
                /\ frm'[c].state = "dirty"
                /\ bufferFrameMap'[frm[c].page_id] = c
                /\ Count(fifo' \o lru', c) = 1
                /\ bufferFrameMap'[page_id[t]] = NoFrame
                /\ disk' = disk]_vars

\* C16 witness: a fix_page has ended on a failed write-back of a dirty
\* victim that has a buffer.
C16_Witness ==
    \E t \in Threads, f \in FrameIds :
       /\ pc[t] = "idle"
       /\ writer[f] = t
       /\ ~Fixed(f)
       /\ frm[f].state = "dirty"
       /\ frm[f].data # NullData

\* C17: a thread that is not inside a call holds neither the pool mutex nor
\* the latch of any frame other than the frames fix_page returned to it.
C17_ExitReleasesAll ==
    \A t \in Threads :
       pc[t] = "idle" =>
          /\ mtx # t
          /\ \A f \in FrameIds :
                (writer[f] = t \/ t \in readers[f]) => \E h \in fixed[t] : h.frame = f

\* Whether some thread is inside readPage on frame f
Reading(f) == \E t \in Threads : pc[t] \in {"gd_read"} /\ frame[t] = f

\* C18: a frame has a buffer exactly when its state is not empty (readPage
\* apart, between its malloc and its read), and a frame's state goes only
\* from empty to clean, from clean to dirty and from dirty to clean.
C18_BufferIffNotEmpty ==
    [][\A f \in FrameIds :
          /\ (frm'[f].page_id # 0 /\ ~Reading(f)')
                => ((frm'[f].data # NullData) = (frm'[f].state # "empty"))
          /\ (frm[f].page_id # 0 /\ frm'[f].page_id = frm[f].page_id
                                 /\ frm'[f].state # frm[f].state)
                => <<frm[f].state, frm'[f].state>> \in
                      {<<"empty", "clean">>, <<"clean", "dirty">>, <<"dirty", "clean">>}]_vars

\* C19: a frame's buffer is allocated once and read from the store once:
\* readPage allocates only when the frame has no buffer and reads only into
\* a frame that is still empty.
C19_MaterialisedOnce ==
    [][\A t \in Threads :
          /\ (pc[t] = "gd_malloc" /\ pc'[t] = "gd_read")
                => frm[frame[t]].data = NullData
          /\ (pc[t] = "gd_read" /\ pc'[t] = "gd_ret")
                => frm[frame[t]].state = "empty"]_vars

\* Positions inside fix_page
FixPcs == {"hit_try", "hit_block", "scan", "throw", "evict_flush", "evict_delete"}

\* Every thread that has a frame fixed unfixes it at some later time
HoldersUnfix ==
    \A t \in Threads, f \in FrameIds : []<>(\A h \in fixed[t] : h.frame # f)

====
